---- MODULE Spec2Model ----
(***************************************************************************)
(* SmartInterview backend: the interview session state machine of          *)
(* routes/public.py (register, start, submit-response, complete) and the   *)
(* decision engine of services/ai_question_service.py                      *)
(* (determine_next_step and its per-provider paths).                       *)
(*                                                                         *)
(* One session of one interview configuration is modelled.  Python lists   *)
(* are 0-based: questions[i] is Preset(i) here, with Python's negative     *)
(* indexing.  Times are seconds; the wall clock advances in steps of       *)
(* ClockStep seconds.  A dictionary key that is not present is Absent; a   *)
(* falsy question text (None or "") is the empty string.                   *)
(*                                                                         *)
(* Modelling assumption: the Response mapping accepts the fields that      *)
(* submit_response hands to create_response (the columns added by          *)
(* add_question_columns.py).                                               *)
(***************************************************************************)
EXTENDS Integers, Sequences, FiniteSets, TLC

VARIABLES
    questions,          \* interview_config.questions: per preset, its stored suggested time (0 = unset)
    time_limit,         \* interview_config.time_limit in minutes (0 = None)
    status,             \* InterviewSession.status
    current_question,   \* InterviewSession.current_question
    start_time,         \* InterviewSession.start_time (Absent = NULL)
    end_time,           \* InterviewSession.end_time (Absent = NULL)
    responses,          \* rows of the responses table of the session, in creation order
    now,                \* datetime.utcnow()
    faults,             \* whether the persistence layer may fail in this run
    inflight,           \* the requests being handled and the step each has reached
    last                \* the last request handled and what it returned

vars == <<questions, time_limit, status, current_question, start_time,
          end_time, responses, now, faults, inflight, last>>

----------------------------------------------------------------------------
(* Bounds *)

MaxPresets == 3
MaxSessionPresets == 2
MaxResponses == 2
MaxNow == 1
MaxTurns == 3
MaxRequested == 6
MaxItems == 2
MaxInFlight == 2

(* Values *)

Absent == -1
NonNumeric == -2
ClockStep == 45

PresetSecs == {0, 90}
TimeLimits == {0, 1}
Durations == {Absent, NonNumeric, 10, 90, 200}
Actions == {"preset", "follow_up", "resume", "complete"}
PayloadActions == Actions \cup {"bogus", "absent"}
PayloadTexts == {"", "generated"}
QuestionTypes == {"preset", "follow_up"}

Min(a, b) == IF a < b THEN a ELSE b
Max(a, b) == IF a > b THEN a ELSE b

\* qs[i] of the Python list qs = interview_config.questions (0-based, negative
\* indices count from the end)
PyIndex(qs, i) == IF i < 0 THEN i + Len(qs) + 1 ELSE i + 1
PresetText(qs, i) == <<"preset", PyIndex(qs, i)>>
GeneratedText == <<"generated", 0>>
NoText == <<"", 0>>
\* getattr(next_question, 'suggested_time_seconds', 120) or 120
PresetSuggested(qs, i) == IF qs[PyIndex(qs, i)] = 0 THEN 120 ELSE qs[PyIndex(qs, i)]

TextOf(t) == IF t = "generated" THEN GeneratedText ELSE NoText

----------------------------------------------------------------------------
(* Decisions (the dict returned by determine_next_step) *)

Step(a, t, n, s) ==
    [action |-> a, question_text |-> t, next_index |-> n, suggested_time_seconds |-> s]
CompleteStep == Step("complete", NoText, Absent, Absent)
Raised == Step("raise", NoText, Absent, Absent)
NoStep == Step("none", NoText, Absent, Absent)

\* remaining = max(0, time_limit_seconds - elapsed_seconds)
Remaining(elapsed, limit) == Max(0, limit - elapsed)

\* max(30, min(180, t)), then min(t, remaining) when remaining > 0
ClampTime(t, remaining) ==
    LET c == Max(30, Min(180, t))
    IN IF remaining > 0 THEN Min(c, remaining) ELSE c

\* variant: completes one preset early
_get_next_preset_or_complete_early(qs, idx) ==
    IF idx + 2 < Len(qs)
    THEN Step("preset", PresetText(qs, idx + 1), idx + 2, PresetSuggested(qs, idx + 1))
    ELSE CompleteStep

_get_next_preset_or_complete(qs, idx) ==
    IF idx + 1 < Len(qs)
    THEN Step("preset", PresetText(qs, idx + 1), idx + 2, PresetSuggested(qs, idx + 1))
    ELSE CompleteStep

\* variant: without the final fallback the last backend error propagates
FinalFallback_raises(qs, idx, elapsed, limit) == Raised

\* the tail of determine_next_step, reached when no backend returned
FinalFallback(qs, idx, elapsed, limit) ==
    LET remaining == Remaining(elapsed, limit)
        suggested == IF remaining > 0 THEN Min(120, remaining) ELSE 120
    IN IF idx + 1 < Len(qs)
       THEN Step("preset", PresetText(qs, idx + 1), idx + 2, suggested)
       ELSE CompleteStep

\* A backend payload: the parsed JSON.  dict = FALSE is JSON that is not an object.
Payloads ==
    [dict : BOOLEAN, action : PayloadActions, question_text : PayloadTexts,
     secs : Durations]

_process_llm_decision(qs, d, idx, remaining) ==
    IF ~d.dict THEN Raised
    ELSE IF d.secs = NonNumeric THEN Raised
    ELSE
      LET action == IF d.action = "absent" THEN "preset" ELSE d.action
          text == TextOf(d.question_text)
          suggested == ClampTime(IF d.secs = Absent THEN 120 ELSE d.secs, remaining)
          asPreset ==
              IF idx + 1 < Len(qs)
              THEN Step("preset",
                        IF text # NoText THEN text ELSE PresetText(qs, idx + 1),
                        idx + 2, suggested)
              ELSE CompleteStep
      IN IF action = "complete" THEN CompleteStep
         ELSE IF action \in {"follow_up", "resume"}
              THEN IF text # NoText
                   THEN Step(action, text, Absent, suggested)
                   ELSE asPreset
         ELSE IF action = "preset" THEN asPreset
         ELSE CompleteStep

\* Groq outcomes: the call fails (network error, status # 200, invalid JSON) or
\* returns a payload
_determine_next_step_with_groq(qs, g, idx, elapsed, limit) ==
    IF ~g.ok THEN Raised
    ELSE IF ~g.payload.dict THEN Raised
    ELSE
      LET d == g.payload
          has_remaining_presets == idx + 1 < Len(qs)
      IN IF d.action \in {"follow_up", "resume"} /\ d.question_text # ""
         THEN IF d.secs = NonNumeric THEN Raised
              ELSE Step(d.action, TextOf(d.question_text), idx + 1,
                        ClampTime(IF d.secs = Absent THEN 90 ELSE d.secs,
                                  Remaining(elapsed, limit)))
         ELSE IF d.action = "preset" /\ has_remaining_presets
              THEN Step("preset", PresetText(qs, idx + 1), idx + 2, PresetSuggested(qs, idx + 1))
         ELSE IF d.action = "complete" /\ ~has_remaining_presets
              THEN CompleteStep
         ELSE _get_next_preset_or_complete(qs, idx)

\* the outer except of _determine_next_step_with_gemini: Groq is called without
\* the time arguments, which then take their defaults 0 and 600
GeminiExcept(qs, cfg, g, idx) ==
    LET r == _determine_next_step_with_groq(qs, g, idx, 0, 600)
    IN IF cfg.groq /\ r # Raised THEN r
       ELSE _get_next_preset_or_complete(qs, idx)

\* Gemini outcomes: "api_error" (the call raises), "parse_error" (the text is not
\* JSON), "resp_error" (another error while reading the response), "ok" (payload)
GeminiKinds == {"api_error", "parse_error", "resp_error", "ok"}

_determine_next_step_with_gemini(qs, cfg, m, g, idx, elapsed, limit) ==
    LET d == m.payload
        has_remaining_presets == idx + 1 < Len(qs)
    IN IF m.kind = "api_error" THEN GeminiExcept(qs, cfg, g, idx)
       ELSE IF m.kind = "parse_error"
            THEN IF has_remaining_presets
                 THEN Step("preset", PresetText(qs, idx + 1), idx + 2, Absent)
                 ELSE _get_next_preset_or_complete(qs, idx)
       ELSE IF m.kind = "resp_error" THEN _get_next_preset_or_complete(qs, idx)
       ELSE IF ~d.dict THEN GeminiExcept(qs, cfg, g, idx)
       ELSE IF d.action = "preset"
            THEN IF has_remaining_presets
                 THEN Step("preset", PresetText(qs, idx + 1), idx + 2, PresetSuggested(qs, idx + 1))
                 ELSE CompleteStep
       ELSE IF d.action \in {"follow_up", "resume"}
            THEN IF d.question_text # ""
                 THEN IF d.secs = NonNumeric THEN GeminiExcept(qs, cfg, g, idx)
                      ELSE Step(d.action, TextOf(d.question_text), idx + 1,
                                ClampTime(IF d.secs = Absent THEN 90 ELSE d.secs,
                                          Remaining(elapsed, limit)))
                 ELSE _get_next_preset_or_complete(qs, idx)
       ELSE IF d.action = "complete"
            THEN IF has_remaining_presets
                 THEN _get_next_preset_or_complete(qs, idx)
                 ELSE CompleteStep
       ELSE _get_next_preset_or_complete(qs, idx)

\* Which backends are configured (module globals of ai_question_service.py)
Configs == [gemini : BOOLEAN, groq : BOOLEAN, openrouter : BOOLEAN]

\* out.gemini = [kind, payload], out.groq and out.openrouter = [ok, payload]

determine_next_step(qs, cfg, out, idx, elapsed, limit) ==
    LET viaGroq == _determine_next_step_with_groq(qs, out.groq, idx, elapsed, limit)
        viaOpenRouter ==
            IF ~out.openrouter.ok THEN Raised
            ELSE _process_llm_decision(qs, out.openrouter.payload, idx,
                                       Remaining(elapsed, limit))
    IN IF cfg.gemini
       THEN _determine_next_step_with_gemini(qs, cfg, out.gemini, out.groq, idx, elapsed, limit)
       ELSE IF cfg.groq /\ viaGroq # Raised THEN viaGroq
       ELSE IF cfg.openrouter /\ viaOpenRouter # Raised THEN viaOpenRouter
       ELSE FinalFallback(qs, idx, elapsed, limit)

----------------------------------------------------------------------------
(* Which backend produced the decision of a turn *)

GroqFailed(qs, g, idx) == _determine_next_step_with_groq(qs, g, idx, 0, 600) = Raised

GeminiFailed(m) ==
    \/ m.kind # "ok"
    \/ ~m.payload.dict
    \/ /\ m.payload.action \in {"follow_up", "resume"}
       /\ m.payload.question_text # ""
       /\ m.payload.secs = NonNumeric

OpenRouterFailed(qs, o, idx) ==
    ~o.ok \/ _process_llm_decision(qs, o.payload, idx, 600) = Raised

\* every configured backend that determine_next_step called has failed
AllBackendsFailed(qs, cfg, out, idx) ==
    IF cfg.gemini
    THEN GeminiFailed(out.gemini) /\ (cfg.groq => GroqFailed(qs, out.groq, idx))
    ELSE /\ cfg.groq => GroqFailed(qs, out.groq, idx)
         /\ cfg.openrouter => OpenRouterFailed(qs, out.openrouter, idx)

----------------------------------------------------------------------------
(* The session state machine (routes/public.py) *)

\* Texts of transcripts: the number of leading whitespace characters, the
\* length of the text without them, and whether that text starts with "["
Text(lead, body, bracketed) == [lead |-> lead, body |-> body, bracketed |-> bracketed]
\* len(t)
StrLen(t) == t.lead + t.body
\* t.strip()
Strip(t) == Text(0, t.body, t.bracketed)
\* t.startswith("[")
StartsWithBracket(t) == t.lead = 0 /\ t.body > 0 /\ t.bracketed
\* "[No response recorded]"
NoResponseRecorded == Text(0, 22, TRUE)
\* "[No transcription available - all methods failed]"
AllMethodsFailedText == Text(0, 50, TRUE)

\* live_transcript of the form: None, or what the browser recognised
NoLive == Text(Absent, 0, FALSE)
LiveTranscripts ==
    {NoLive, Text(0, 0, FALSE), Text(6, 0, FALSE), Text(0, 5, FALSE),
     Text(0, 6, FALSE), Text(4, 2, FALSE), Text(2, 6, FALSE)}

\* What happens to the audio: saving it raises, transcribe_audio raises, or
\* transcribe_audio returns a text
AudioTexts ==
    {AllMethodsFailedText, Text(0, 0, FALSE), Text(0, 3, FALSE), Text(0, 8, TRUE),
     Text(0, 9, FALSE), Text(1, 9, TRUE)}
Transcriptions ==
    {[kind |-> k, text |-> Text(0, 0, FALSE)] : k \in {"save_error", "raise"}}
        \cup {[kind |-> "text", text |-> t] : t \in AudioTexts}
AllMethodsFailed == [kind |-> "text", text |-> AllMethodsFailedText]
\* transcribe_audio is not called
NoTranscription == [kind |-> "none", text |-> Text(0, 0, FALSE)]

\* variant: every live transcript that is present is used
LiveUsable_any(live) == live # NoLive

\* live_transcript and len(live_transcript.strip()) > 5
LiveUsable(live) == live # NoLive /\ StrLen(live) > 0 /\ StrLen(Strip(live)) > 5

\* step 2 of submit_response: the transcript that is stored with the response
transcript_text(live, tr) ==
    LET lastResort == IF LiveUsable(live) THEN Strip(live) ELSE NoResponseRecorded
        audio_transcript == tr.text
    IN IF tr.kind = "save_error" THEN lastResort
       ELSE IF LiveUsable(live) THEN Strip(live)
       ELSE IF tr.kind = "raise" THEN lastResort
       ELSE IF /\ StrLen(audio_transcript) > 0
               /\ ~StartsWithBracket(audio_transcript)
               /\ StrLen(Strip(audio_transcript)) > 5
            THEN audio_transcript
            ELSE NoResponseRecorded

\* detail: the message of the response, where the handler has several;
\* request: the other inputs of the request, where a handler reads any
NoRequest == [live_transcript |-> NoLive, transcription |-> NoTranscription]
Result(op, http, detail, qnum, elapsed, failed, step) ==
    [op |-> op, http |-> http, detail |-> detail, qnum |-> qnum,
     elapsed |-> elapsed, failed |-> failed, step |-> step, request |-> NoRequest]

\* (interview_config.time_limit or 10) * 60
TimeLimitSeconds == (IF time_limit = 0 THEN 10 ELSE time_limit) * 60

\* elapsed_seconds of submit_response
ElapsedSeconds == IF start_time # Absent THEN (now - start_time) * ClockStep ELSE 0

\* SessionRepository.update_session: a failed write is rolled back and reported
\* as False, which no caller looks at
WriteOutcomes == IF faults THEN BOOLEAN ELSE {TRUE}

\* A request in flight: the handler and the await it has passed.  Handlers
\* that are modelled as one step leave no request in flight.
Idle == [op |-> "idle", pc |-> "idle", qnum |-> 0, qtype |-> "preset"]
NoneInFlight == [i \in 1..MaxInFlight |-> Idle]

\* register_candidate has created the session
SessionInit ==
    /\ status = "created"
    /\ current_question = 0
    /\ start_time = Absent
    /\ end_time = Absent
    /\ responses = <<>>
    /\ now = 0
    /\ inflight = NoneInFlight
    /\ last = Result("register_candidate", 200, "", 0, 0, FALSE, NoStep)

Tick ==
    /\ now < MaxNow
    /\ now' = now + 1
    /\ UNCHANGED <<questions, time_limit, status, current_question, start_time,
                   end_time, responses, faults, inflight, last>>

start_interview_session ==
    /\ \E ok \in WriteOutcomes :
         IF ok
         THEN /\ status' = "in_progress"
              /\ start_time' = now
              /\ current_question' = 0
         ELSE UNCHANGED <<status, start_time, current_question>>
    /\ last' = Result("start_interview_session", 200, "", 0, 0, FALSE, NoStep)
    /\ UNCHANGED <<questions, time_limit, end_time, responses, now, faults, inflight>>

\* variant: no early return for a completed session
AlreadyCompleted_never(st) == FALSE

\* session.status == "completed": already done, just return success
AlreadyCompleted(st) == st = "completed"

\* variant: a session is completed from whatever state it is in
Completable_always(st) == TRUE

\* if session.status != "in_progress": raise HTTPException(400)
Completable(st) == st = "in_progress"

CompleteDetails ==
    {"Session already completed.", "Session cannot be completed from state",
     "Session completed successfully"}

\* the body of complete_session as a relation on the session row
CompleteSession(ok, http, detail) ==
    IF AlreadyCompleted(status)
    THEN /\ http = 200 /\ detail = "Session already completed."
         /\ UNCHANGED <<status, end_time>>
    ELSE IF ~Completable(status)
    THEN /\ http = 400 /\ detail = "Session cannot be completed from state"
         /\ UNCHANGED <<status, end_time>>
    ELSE /\ http = 200 /\ detail = "Session completed successfully"
         /\ IF ok
            THEN status' = "completed" /\ end_time' = now
            ELSE UNCHANGED <<status, end_time>>

complete_session ==
    /\ \E ok \in WriteOutcomes, http \in {200, 400}, detail \in CompleteDetails :
         /\ CompleteSession(ok, http, detail)
         /\ last' = Result("complete_session", http, detail, 0, 0, FALSE, NoStep)
    /\ UNCHANGED <<questions, time_limit, current_question, start_time,
                   responses, now, faults, inflight>>

\* variant: only a completed session is refused
SubmitAllowed_unstarted(st) == st # "completed"

\* if session.status != "in_progress": raise HTTPException(400)
SubmitAllowed(st) == st = "in_progress"

\* variant: every decision that carries an index moves the cursor
WritesCursor_any(action, next_index) == next_index # Absent

\* if action == "preset" and next_index is not None: update current_question
WritesCursor(action, next_index) == action = "preset" /\ next_index # Absent

Response(qnum, qtype, transcript) ==
    [question_number |-> qnum, question_type |-> qtype, transcript |-> transcript]

\* step 6 of submit_response: the session write that the decision calls for
ProcessDecision(next_step, ok) ==
    LET action == next_step.action
    IN IF action = "complete"
       THEN /\ IF ok
               THEN status' = "completed" /\ end_time' = now
               ELSE UNCHANGED <<status, end_time>>
            /\ UNCHANGED current_question
       ELSE IF action \in {"preset", "follow_up", "resume"}
       THEN IF next_step.question_text = NoText
            THEN /\ \E http \in {200, 400}, detail \in CompleteDetails : CompleteSession(ok, http, detail)
                 /\ UNCHANGED current_question
            ELSE /\ IF WritesCursor(action, next_step.next_index) /\ ok
                    THEN current_question' = next_step.next_index
                    ELSE UNCHANGED current_question
                 /\ UNCHANGED <<status, end_time>>
       ELSE /\ \E http \in {200, 400}, detail \in CompleteDetails : CompleteSession(ok, http, detail)
            /\ UNCHANGED current_question

\* One submit-response request.  req: the live transcript of the client and
\* the outcome of the server transcription; created: create_response
\* committed; ok: the update_session write of the turn committed.
Submit(req, qnum, qtype, next_step, failed, created, ok) ==
    LET elapsed == ElapsedSeconds
        Returned(http, el, fl, step) ==
            [Result("submit_response", http, "", qnum, el, fl, step)
                EXCEPT !.request = req]
    IN
    IF ~SubmitAllowed(status)
    THEN /\ last' = Returned(400, 0, FALSE, NoStep)
         /\ UNCHANGED <<status, current_question, end_time, responses>>
    ELSE IF ~created
    THEN /\ last' = Returned(500, 0, FALSE, NoStep)
         /\ UNCHANGED <<status, current_question, end_time, responses>>
    ELSE
         /\ responses' = Append(responses,
                Response(qnum, qtype,
                         transcript_text(req.live_transcript, req.transcription)))
         /\ last' = Returned(200, elapsed, failed, next_step)
         /\ ProcessDecision(next_step, ok)

\* data["action"] of the response of submit_response for the decision step
ResponseAction(step) ==
    IF step.action = "complete" THEN "complete"
    ELSE IF step.action \in {"preset", "follow_up", "resume"}
         THEN IF step.question_text = NoText THEN "complete" ELSE step.action
    ELSE "complete"

----------------------------------------------------------------------------
(* What the backends can answer in one turn, for payloads drawn from P.  A     *)
(* backend that is not called in the turn has the idle outcome.                *)

NoPayload == [dict |-> FALSE, action |-> "absent", question_text |-> "", secs |-> Absent]
IdleCall == [ok |-> FALSE, payload |-> NoPayload]
IdleGemini == [kind |-> "api_error", payload |-> NoPayload]

GeminiOuts(P) ==
    {[kind |-> k, payload |-> NoPayload] : k \in GeminiKinds \ {"ok"}}
        \cup {[kind |-> "ok", payload |-> p] : p \in P \cup {NoPayload}}
CallOuts(P) == {IdleCall} \cup {[ok |-> TRUE, payload |-> p] : p \in P \cup {NoPayload}}

TurnOutcomes(qs, cfg, idx, P) ==
    LET ms == IF cfg.gemini THEN GeminiOuts(P) ELSE {IdleGemini}
        gs(m) == IF cfg.groq /\ (cfg.gemini => GeminiFailed(m))
                 THEN CallOuts(P) ELSE {IdleCall}
        os(g) == IF cfg.openrouter /\ ~cfg.gemini /\ (cfg.groq => GroqFailed(qs, g, idx))
                 THEN CallOuts(P) ELSE {IdleCall}
    IN UNION {UNION {{[gemini |-> m, groq |-> g, openrouter |-> o] : o \in os(g)}
                      : g \in gs(m)} : m \in ms}

\* the requests of a session in which the browser sends no live transcript
\* and no transcription provider works
SessionRequests == {[live_transcript |-> NoLive, transcription |-> AllMethodsFailed]}

DictPayloads == {p \in Payloads : p.dict}
SessionPayloads == {p \in DictPayloads : p.secs \in {Absent, NonNumeric}}

\* The decisions of a turn: what determine_next_step returns for the 0-based
\* index of the question just answered, and whether every backend failed
Turns(qs, cfg, idx, elapsed, limit, P) ==
    {[next_step |-> determine_next_step(qs, cfg, out, idx, elapsed, limit),
      failed |-> AllBackendsFailed(qs, cfg, out, idx)] : out \in TurnOutcomes(qs, cfg, idx, P)}

----------------------------------------------------------------------------
(* Spec: one session, any client, any backend behaviour *)

\* interview configurations as the ORM loads them: Question has no
\* suggested_time_seconds column
OrmQuestions == UNION {[1..n -> {0}] : n \in 1..MaxPresets}

\* determine_next_step over every backend configuration and outcome, tabulated
\* by its other arguments
SessionTurnTable ==
    {[qs |-> k[1], idx |-> k[2], elapsed |-> k[3], limit |-> k[4],
      turns |-> UNION {Turns(k[1], cfg, k[2], k[3], k[4], SessionPayloads) : cfg \in Configs}] :
        k \in OrmQuestions \X (0..(MaxPresets - 1))
                \X {t * ClockStep : t \in 0..MaxNow}
                \X {(IF l = 0 THEN 10 ELSE l) * 60 : l \in TimeLimits}}
SessionTurns(qs, idx, elapsed, limit) ==
    (CHOOSE r \in SessionTurnTable :
        r.qs = qs /\ r.idx = idx /\ r.elapsed = elapsed /\ r.limit = limit).turns

Init ==
    /\ questions \in OrmQuestions
    /\ time_limit \in TimeLimits
    /\ faults = FALSE
    /\ SessionInit

\* the configurations of Spec: those with at most MaxSessionPresets questions
SessionQuestions == {qs \in OrmQuestions : Len(qs) <= MaxSessionPresets}

InitSession ==
    /\ questions \in SessionQuestions
    /\ time_limit \in TimeLimits
    /\ faults = FALSE
    /\ SessionInit

submit_response ==
    /\ Len(responses) < MaxResponses
    /\ \E qnum \in 1..Len(questions) :
         \E t \in SessionTurns(questions, qnum - 1, ElapsedSeconds, TimeLimitSeconds) :
            \E req \in SessionRequests, qtype \in QuestionTypes,
               created \in WriteOutcomes, ok \in WriteOutcomes :
               Submit(req, qnum, qtype, t.next_step, t.failed, created, ok)
    /\ UNCHANGED <<questions, time_limit, start_time, now, faults, inflight>>

Next ==
    \/ Tick
    \/ start_interview_session
    \/ submit_response
    \/ complete_session

Spec == InitSession /\ [][Next]_vars

----------------------------------------------------------------------------
(* SpecEngine: determine_next_step as a function, applied once to inputs      *)
(* drawn from every configuration, backend outcome, index and time            *)

AnyQuestions == UNION {[1..n -> PresetSecs] : n \in 1..MaxPresets}
EngineQNums == 0..(MaxPresets + 1)
EngineElapsed == {0, 15, 45, 60, 450}

InitEngine ==
    /\ questions \in AnyQuestions
    /\ time_limit \in TimeLimits
    /\ faults = FALSE
    /\ SessionInit

decide ==
    /\ last.op # "determine_next_step"
    /\ \E qnum \in EngineQNums, elapsed \in EngineElapsed, cfg \in Configs :
         \E out \in TurnOutcomes(questions, cfg, qnum - 1, DictPayloads) :
            last' = Result("determine_next_step", 200, "", qnum, elapsed,
                           AllBackendsFailed(questions, cfg, out, qnum - 1),
                           determine_next_step(questions, cfg, out, qnum - 1,
                                               elapsed, TimeLimitSeconds))
    /\ UNCHANGED <<questions, time_limit, status, current_question, start_time,
                   end_time, responses, now, faults, inflight>>

NextEngine == decide

SpecEngine == InitEngine /\ [][NextEngine]_vars

----------------------------------------------------------------------------
(* SpecFallback: a session that is started once, in which every backend call  *)
(* fails and the client answers the preset questions in order                 *)

FallbackTurnTable ==
    {[qs |-> k[1], idx |-> k[2], elapsed |-> k[3], limit |-> k[4],
      turns |-> {t \in UNION {Turns(k[1], cfg, k[2], k[3], k[4], DictPayloads) :
                                cfg \in Configs} : t.failed}] :
        k \in OrmQuestions \X (0..(MaxPresets - 1))
                \X {t * ClockStep : t \in 0..MaxNow}
                \X {(IF l = 0 THEN 10 ELSE l) * 60 : l \in TimeLimits}}
FallbackTurns(qs, idx, elapsed, limit) ==
    (CHOOSE r \in FallbackTurnTable :
        r.qs = qs /\ r.idx = idx /\ r.elapsed = elapsed /\ r.limit = limit).turns

start_once ==
    /\ status = "created"
    /\ start_interview_session

answer_in_order ==
    /\ Len(responses) < Len(questions)
    /\ LET qnum == Len(responses) + 1
       IN \E t \in FallbackTurns(questions, qnum - 1, ElapsedSeconds, TimeLimitSeconds),
             req \in SessionRequests :
             Submit(req, qnum, "preset", t.next_step, t.failed, TRUE, TRUE)
    /\ UNCHANGED <<questions, time_limit, start_time, now, faults, inflight>>

NextFallback ==
    \/ Tick
    \/ start_once
    \/ answer_in_order
    \/ complete_session

SpecFallback == Init /\ [][NextFallback]_vars

----------------------------------------------------------------------------
(* SpecFaulty: the session machine of Spec over a persistence layer whose     *)
(* writes may fail (or whose request may be cancelled before the write)       *)

InitFaulty ==
    /\ questions \in SessionQuestions
    /\ time_limit \in TimeLimits
    /\ faults = TRUE
    /\ SessionInit

SpecFaulty == InitFaulty /\ [][Next]_vars

----------------------------------------------------------------------------
(* SpecDialogue: a session that is started once and whose client always       *)
(* answers the question it was last given, with any backend behaviour         *)

\* the question number and type that the client sends for the question it
\* was given by the last response (question 1 after the start)
AnswerQNum ==
    IF last.op # "submit_response" THEN 1
    ELSE IF last.step.action = "preset" THEN last.step.next_index
    ELSE last.qnum
AnswerQType ==
    IF last.op = "submit_response" /\ last.step.action \in {"follow_up", "resume"}
    THEN last.step.action
    ELSE "preset"

answer_last_given ==
    /\ status = "in_progress"
    /\ Len(responses) < MaxTurns
    /\ \E t \in SessionTurns(questions, AnswerQNum - 1, ElapsedSeconds, TimeLimitSeconds),
          req \in SessionRequests :
          Submit(req, AnswerQNum, AnswerQType, t.next_step, t.failed, TRUE, TRUE)
    /\ UNCHANGED <<questions, time_limit, start_time, now, faults, inflight>>

NextDialogue ==
    \/ Tick
    \/ start_once
    \/ answer_last_given

SpecDialogue == Init /\ [][NextDialogue]_vars

----------------------------------------------------------------------------
(* SpecTranscribe: the first submission of a started session, with every      *)
(* live transcript and every outcome of saving and transcribing the audio     *)

Requests == [live_transcript : LiveTranscripts, transcription : Transcriptions]

submit_transcribed ==
    /\ responses = <<>>
    /\ \E qnum \in 1..Len(questions) :
         \E t \in SessionTurns(questions, qnum - 1, ElapsedSeconds, TimeLimitSeconds),
            req \in Requests :
            Submit(req, qnum, "preset", t.next_step, t.failed, TRUE, TRUE)
    /\ UNCHANGED <<questions, time_limit, start_time, now, faults, inflight>>

NextTranscribe ==
    \/ Tick
    \/ start_once
    \/ submit_transcribed

SpecTranscribe == Init /\ [][NextTranscribe]_vars

----------------------------------------------------------------------------
(* SpecHistory: a session that is started once, whose client sends any        *)
(* question number and type with one of two answers, and the session history  *)
(* that each turn builds for the decision engine                              *)

\* the orders in which ORDER BY question_number can return the rows: every
\* permutation that is sorted by question_number (rows with equal numbers come
\* in an order the query does not fix)
get_session_responses(rows) ==
    LET n == Len(rows)
        perms == {f \in [1..n -> 1..n] : \A i, j \in 1..n : i # j => f[i] # f[j]}
        sorted == {f \in perms : \A i \in 1..(n - 1) :
                      rows[f[i]].question_number <= rows[f[i + 1]].question_number}
    IN {[i \in 1..n |-> rows[f[i]]] : f \in sorted}

\* step 4 of submit_response: one entry per row, the question being the text
\* of the preset with the row's number ("" when there is none)
session_history(qs, all_responses) ==
    [i \in 1..Len(all_responses) |->
        LET q_index == all_responses[i].question_number - 1
        IN [question |-> IF q_index >= 0 /\ q_index < Len(qs)
                         THEN PresetText(qs, q_index) ELSE NoText,
            answer |-> all_responses[i].transcript]]

\* two answers that the browser recognised, told apart by their length
HistoryAnswers == {Text(0, 6, FALSE), Text(0, 7, FALSE)}

submit_with_history ==
    /\ Len(responses) < MaxResponses
    /\ \E qnum \in 1..Len(questions), qtype \in QuestionTypes, live \in HistoryAnswers :
         LET stored == Append(responses,
                           Response(qnum, qtype, transcript_text(live, NoTranscription)))
             histories == IF SubmitAllowed(status)
                          THEN {session_history(questions, rows) :
                                    rows \in get_session_responses(stored)}
                          ELSE {<<>>}
         IN \E t \in SessionTurns(questions, qnum - 1, ElapsedSeconds, TimeLimitSeconds),
               h \in histories :
               Submit([live_transcript |-> live, transcription |-> NoTranscription,
                       session_history |-> h],
                      qnum, qtype, t.next_step, t.failed, TRUE, TRUE)
    /\ UNCHANGED <<questions, time_limit, start_time, now, faults, inflight>>

NextHistory ==
    \/ Tick
    \/ start_once
    \/ submit_with_history

SpecHistory == Init /\ [][NextHistory]_vars

----------------------------------------------------------------------------
(* SpecRetry: a session that is started once; a first submission, any later   *)
(* turns, and then the first submission sent again with the same backend      *)
(* outcome.  The requests carry the first submission, so that it can be sent  *)
(* again.                                                                     *)

RetryRequest(phase, first) ==
    [live_transcript |-> NoLive, transcription |-> AllMethodsFailed,
     phase |-> phase, first |-> first]

\* the same backend outcome gives the same action, question text and index at
\* any time; only the suggested time depends on the time that has elapsed
SameOutcome(t, u) ==
    /\ t.failed = u.failed
    /\ t.next_step.action = u.next_step.action
    /\ t.next_step.question_text = u.next_step.question_text
    /\ t.next_step.next_index = u.next_step.next_index

first_submit ==
    /\ status = "in_progress"
    /\ responses = <<>>
    /\ \E qnum \in 1..Len(questions), qtype \in QuestionTypes :
         \E t \in SessionTurns(questions, qnum - 1, ElapsedSeconds, TimeLimitSeconds) :
            Submit(RetryRequest("first", [qnum |-> qnum, qtype |-> qtype, turn |-> t]),
                   qnum, qtype, t.next_step, t.failed, TRUE, TRUE)
    /\ UNCHANGED <<questions, time_limit, start_time, now, faults, inflight>>

later_turn ==
    /\ last.op = "submit_response"
    /\ last.request.phase \in {"first", "later"}
    /\ Len(responses) + 1 < MaxTurns
    /\ \E qnum \in 1..Len(questions), qtype \in QuestionTypes :
         \E t \in SessionTurns(questions, qnum - 1, ElapsedSeconds, TimeLimitSeconds) :
            Submit(RetryRequest("later", last.request.first),
                   qnum, qtype, t.next_step, t.failed, TRUE, TRUE)
    /\ UNCHANGED <<questions, time_limit, start_time, now, faults, inflight>>

retry ==
    /\ last.op = "submit_response"
    /\ last.request.phase \in {"first", "later"}
    /\ Len(responses) < MaxTurns
    /\ LET first == last.request.first
       IN \E t \in SessionTurns(questions, first.qnum - 1, ElapsedSeconds, TimeLimitSeconds) :
             /\ SameOutcome(t, first.turn)
             /\ Submit(RetryRequest("retry", first),
                       first.qnum, first.qtype, t.next_step, t.failed, TRUE, TRUE)
    /\ UNCHANGED <<questions, time_limit, start_time, now, faults, inflight>>

NextRetry ==
    \/ Tick
    \/ start_once
    \/ first_submit
    \/ later_turn
    \/ retry

SpecRetry == Init /\ [][NextRetry]_vars

----------------------------------------------------------------------------
(* SpecConcurrent: a session that is started once and on which up to          *)
(* MaxInFlight submit-response and complete requests are handled at the same  *)
(* time.  Each handler runs on its own database session without a lock, so    *)
(* between its awaits the other requests may read and write the row: a        *)
(* handler is split at the awaits between its reads and its commits.          *)

InFlight(op, pc, qnum, qtype) == [op |-> op, pc |-> pc, qnum |-> qnum, qtype |-> qtype]

\* the submissions that have passed the status check and not yet stored
\* their response
Verified == {i \in 1..MaxInFlight :
                inflight[i].op = "submit_response" /\ inflight[i].pc = "verified"}

\* step 1 of submit_response: read the session row and check its status
receive_submit(i) ==
    /\ inflight[i] = Idle
    /\ Len(responses) + Cardinality(Verified) < MaxResponses
    /\ \E qnum \in 1..Len(questions), qtype \in QuestionTypes :
         IF ~SubmitAllowed(status)
         THEN /\ last' = Result("submit_response", 400, "", qnum, 0, FALSE, NoStep)
              /\ UNCHANGED inflight
         ELSE /\ inflight' = [inflight EXCEPT
                                ![i] = InFlight("submit_response", "verified", qnum, qtype)]
              /\ UNCHANGED last
    /\ UNCHANGED <<questions, time_limit, status, current_question, start_time,
                   end_time, responses, now, faults>>

\* steps 2 and 3 of submit_response: transcribe, then create_response commits
store_response(i) ==
    /\ inflight[i].op = "submit_response" /\ inflight[i].pc = "verified"
    /\ responses' = Append(responses,
                           Response(inflight[i].qnum, inflight[i].qtype,
                                    transcript_text(NoLive, AllMethodsFailed)))
    /\ inflight' = [inflight EXCEPT ![i].pc = "stored"]
    /\ UNCHANGED <<questions, time_limit, status, current_question, start_time,
                   end_time, now, faults, last>>

\* steps 5 and 6 of submit_response: the decision of the backends, then the
\* session write it calls for.  start_time is the one read in step 1; the
\* session is started once, so it is the one of the row.
decide_and_update(i) ==
    /\ inflight[i].op = "submit_response" /\ inflight[i].pc = "stored"
    /\ \E t \in SessionTurns(questions, inflight[i].qnum - 1,
                              ElapsedSeconds, TimeLimitSeconds) :
         /\ ProcessDecision(t.next_step, TRUE)
         /\ last' = Result("submit_response", 200, "", inflight[i].qnum,
                           ElapsedSeconds, t.failed, t.next_step)
    /\ inflight' = [inflight EXCEPT ![i] = Idle]
    /\ UNCHANGED <<questions, time_limit, start_time, responses, now, faults>>

\* complete_session up to its update: read the session row and check its status
receive_complete(i) ==
    /\ inflight[i] = Idle
    /\ IF AlreadyCompleted(status)
       THEN /\ last' = Result("complete_session", 200, "Session already completed.",
                              0, 0, FALSE, NoStep)
            /\ UNCHANGED inflight
       ELSE IF ~Completable(status)
       THEN /\ last' = Result("complete_session", 400,
                              "Session cannot be completed from state", 0, 0, FALSE, NoStep)
            /\ UNCHANGED inflight
       ELSE /\ inflight' = [inflight EXCEPT
                              ![i] = InFlight("complete_session", "verified", 0, "preset")]
            /\ UNCHANGED last
    /\ UNCHANGED <<questions, time_limit, status, current_question, start_time,
                   end_time, responses, now, faults>>

\* the update of complete_session
write_complete(i) ==
    /\ inflight[i].op = "complete_session" /\ inflight[i].pc = "verified"
    /\ status' = "completed"
    /\ end_time' = now
    /\ last' = Result("complete_session", 200, "Session completed successfully",
                      0, 0, FALSE, NoStep)
    /\ inflight' = [inflight EXCEPT ![i] = Idle]
    /\ UNCHANGED <<questions, time_limit, current_question, start_time,
                   responses, now, faults>>

NextConcurrent ==
    \/ Tick
    \/ start_once
    \/ \E i \in 1..MaxInFlight : receive_submit(i)
    \/ \E i \in 1..MaxInFlight : store_response(i)
    \/ \E i \in 1..MaxInFlight : decide_and_update(i)
    \/ \E i \in 1..MaxInFlight : receive_complete(i)
    \/ \E i \in 1..MaxInFlight : write_complete(i)

SpecConcurrent == InitSession /\ [][NextConcurrent]_vars

----------------------------------------------------------------------------
(* SpecRouter: determine_next_step applied once, with the backends it called  *)
(* and the resume text it was given                                           *)

\* the order in which determine_next_step tries the backends
BackendOrder == <<"gemini", "groq", "openrouter">>
Configured(cfg) == SelectSeq(BackendOrder, LAMBDA b : cfg[b])

Call(b, failed) == [backend |-> b, failed |-> failed]

\* the Gemini call left through an exception, which the outer except of
\* _determine_next_step_with_gemini handles
GeminiRaised(m) ==
    \/ m.kind = "api_error"
    \/ /\ m.kind = "ok"
       /\ \/ ~m.payload.dict
          \/ /\ m.payload.action \in {"follow_up", "resume"}
             /\ m.payload.question_text # ""
             /\ m.payload.secs = NonNumeric

\* the backend calls of one determine_next_step, in the order made
BackendCalls(qs, cfg, out, idx) ==
    LET groq == <<Call("groq", GroqFailed(qs, out.groq, idx))>>
        openrouter == <<Call("openrouter", OpenRouterFailed(qs, out.openrouter, idx))>>
    IN IF cfg.gemini
       THEN <<Call("gemini", GeminiFailed(out.gemini))>>
               \o (IF GeminiRaised(out.gemini) /\ cfg.groq THEN groq ELSE <<>>)
       ELSE (IF cfg.groq THEN groq ELSE <<>>)
               \o (IF cfg.openrouter /\ (cfg.groq => GroqFailed(qs, out.groq, idx))
                   THEN openrouter ELSE <<>>)

\* the backends called whose output was not a JSON object: Gemini text that
\* json.loads rejects, or JSON of another type from any backend
Malformed(qs, cfg, out, idx) ==
    LET calls == BackendCalls(qs, cfg, out, idx)
        called == {calls[i].backend : i \in 1..Len(calls)}
    IN {b \in called :
            IF b = "gemini"
            THEN \/ out.gemini.kind = "parse_error"
                 \/ out.gemini.kind = "ok" /\ ~out.gemini.payload.dict
            ELSE out[b].ok /\ ~out[b].payload.dict}

\* resume_text of submit_response: "" without a resume file or when parsing it
\* fails
ResumeTexts == {"", "resume"}

InitRouter ==
    /\ questions \in AnyQuestions
    /\ time_limit \in TimeLimits
    /\ faults = FALSE
    /\ SessionInit

route ==
    /\ last.op # "determine_next_step"
    /\ \E qnum \in 1..Len(questions), cfg \in Configs, resume_text \in ResumeTexts :
         \E out \in TurnOutcomes(questions, cfg, qnum - 1, SessionPayloads) :
            last' = [Result("determine_next_step", 200, "", qnum, 0,
                            AllBackendsFailed(questions, cfg, out, qnum - 1),
                            determine_next_step(questions, cfg, out, qnum - 1,
                                                0, TimeLimitSeconds))
                        EXCEPT !.request =
                            [cfg |-> cfg, resume_text |-> resume_text,
                             calls |-> BackendCalls(questions, cfg, out, qnum - 1),
                             malformed |-> Malformed(questions, cfg, out, qnum - 1)]]
    /\ UNCHANGED <<questions, time_limit, status, current_question, start_time,
                   end_time, responses, now, faults, inflight>>

NextRouter == route

SpecRouter == InitRouter /\ [][NextRouter]_vars

----------------------------------------------------------------------------
(* SpecAnswer: determine_next_step applied once, with the backend whose       *)
(* answer became the decision and the payload that backend returned           *)

NoAnswer == [backend |-> "none", payload |-> NoPayload]

\* the backend call that returned the decision of determine_next_step (the
\* last call made, when it did not fail) and its parsed payload
Answer(qs, cfg, out, idx) ==
    LET calls == BackendCalls(qs, cfg, out, idx)
        b == calls[Len(calls)].backend
    IN IF calls # <<>> /\ ~calls[Len(calls)].failed
       THEN [backend |-> b, payload |-> out[b].payload]
       ELSE NoAnswer

answer ==
    /\ last.op # "determine_next_step"
    /\ \E qnum \in 1..Len(questions), cfg \in Configs :
         \E out \in TurnOutcomes(questions, cfg, qnum - 1, DictPayloads) :
            last' = [Result("determine_next_step", 200, "", qnum, 0,
                            AllBackendsFailed(questions, cfg, out, qnum - 1),
                            determine_next_step(questions, cfg, out, qnum - 1,
                                                0, TimeLimitSeconds))
                        EXCEPT !.request = Answer(questions, cfg, out, qnum - 1)]
    /\ UNCHANGED <<questions, time_limit, status, current_question, start_time,
                   end_time, responses, now, faults, inflight>>

NextAnswer == answer

SpecAnswer == InitRouter /\ [][NextAnswer]_vars

----------------------------------------------------------------------------
(* SpecGenerate: generate_questions, applied once to a requested count, a     *)
(* list of focus areas and the outcomes of the two backends it uses.  The     *)
(* questions returned become the preset questions of the configuration.       *)

\* the length of every list of template_questions and of fallback_texts
TemplateSize == 5
FallbackSize == 5
\* focus: a list of distinct members of FocusArea, known by its length
FocusCounts == 0..3

GenConfigs == [gemini : BOOLEAN, groq : BOOLEAN]

\* A backend answer to the generation prompt: the call fails, or it returns
\* `usable` items that pass the isinstance/key test, all with the duration secs
IdleGen == [ok |-> FALSE, usable |-> 0, secs |-> Absent]
GenOuts ==
    {IdleGen} \cup {[ok |-> TRUE, usable |-> u, secs |-> d] :
                        u \in 0..MaxItems, d \in {Absent, NonNumeric, 10, 200}}

\* the call raised, or max(60, min(180, suggested_time)) did
GenFailed(o) == ~o.ok \/ (o.usable > 0 /\ o.secs = NonNumeric)

\* questions[:number_of_questions], each with its clamped suggested time
AiQuestions(o, n) ==
    [i \in 1..Min(o.usable, n) |->
        Max(60, Min(180, IF o.secs = Absent THEN 120 ELSE o.secs))]

_generate_template_questions(k, n) ==
    LET q_per_area == IF k > 0 THEN (n \div k) + 1 ELSE n
        final == Min(k * Min(q_per_area, TemplateSize), n)
        extended == IF final < n THEN final + Min(n - final, FallbackSize) ELSE final
    IN [i \in 1..Min(extended, n) |-> 120]

generate_questions(cfg, gm, gq, k, n) ==
    IF cfg.gemini /\ ~GenFailed(gm) /\ gm.usable > 0 THEN AiQuestions(gm, n)
    ELSE IF cfg.groq /\ ~GenFailed(gq) /\ gq.usable > 0 THEN AiQuestions(gq, n)
    ELSE _generate_template_questions(k, n)

InitGenerate ==
    /\ questions = <<>>
    /\ time_limit \in TimeLimits
    /\ faults = FALSE
    /\ SessionInit

generate ==
    /\ last.op # "generate_questions"
    /\ \E n \in 1..MaxRequested, k \in FocusCounts, cfg \in GenConfigs :
         \E gm \in (IF cfg.gemini THEN GenOuts ELSE {IdleGen}),
            gq \in (IF cfg.groq THEN GenOuts ELSE {IdleGen}) :
            /\ questions' = generate_questions(cfg, gm, gq, k, n)
            /\ last' = [Result("generate_questions", 200, "", 0, 0,
                                (cfg.gemini => GenFailed(gm)) /\ (cfg.groq => GenFailed(gq)),
                                NoStep)
                           EXCEPT !.request =
                               [number_of_questions |-> n, focus |-> k, cfg |-> cfg,
                                gemini |-> gm, groq |-> gq]]
    /\ UNCHANGED <<time_limit, status, current_question, start_time,
                   end_time, responses, now, faults, inflight>>

NextGenerate == generate

SpecGenerate == InitGenerate /\ [][NextGenerate]_vars

----------------------------------------------------------------------------
(* Properties *)

\* a step that handled a request of the kind op
Handled(op) == last'.op = op /\ last' # last

\* determine_next_step was applied after the answer to one of the presets
Decided == last.op = "determine_next_step" /\ last.qnum \in 1..Len(questions)

FollowUpActions == {"follow_up", "resume"}

C2_NoPrematureComplete ==
    (Decided /\ last.step.action = "complete")
        => ~((last.qnum - 1) + 1 < Len(questions))

C4_TimeClamp ==
    (Decided /\ last.step.action \in FollowUpActions)
        => /\ last.step.suggested_time_seconds >= 30
           /\ last.step.suggested_time_seconds
                 <= Min(180, Remaining(last.elapsed, TimeLimitSeconds))

AsRead(step) ==
    IF step.action = "preset" /\ step.suggested_time_seconds = Absent
    THEN [step EXCEPT !.suggested_time_seconds = 120]
    ELSE step

\* C6: when every backend fails, the decision (action, question text, next
\* index, suggested seconds) depends only on the question list, the index and
\* the times: every backend configuration and every way of failing gives the
\* decision that was returned
C6_FallbackDeterminism ==
    (Decided /\ last.failed)
        => \A cfg \in Configs :
             \A out \in TurnOutcomes(questions, cfg, last.qnum - 1, DictPayloads) :
                AllBackendsFailed(questions, cfg, out, last.qnum - 1)
                    => AsRead(determine_next_step(questions, cfg, out, last.qnum - 1,
                                                  last.elapsed, TimeLimitSeconds))
                          = AsRead(last.step)

\* C7: complete_session on an in-progress session succeeds and sets status and
\* end_time; a second complete_session right after it succeeds too and leaves
\* status and end_time as the first call set them
C7_IdempotentCompletion ==
    [][Handled("complete_session") =>
         /\ status = "in_progress" =>
               /\ last'.http = 200
               /\ status' = "completed"
               /\ end_time' = now
         /\ (last.op = "complete_session" /\ last.http = 200) =>
               /\ last'.http = 200
               /\ status' = status
               /\ end_time' = end_time]_vars

C7_Witness ==
    /\ last.op = "complete_session" /\ last.http = 200
    /\ last.detail = "Session already completed."
    /\ status = "completed"
    /\ end_time # Absent /\ end_time < now

\* C8: when less than 120 seconds remain, no decision is a follow-up or resume
\* question
C8_NoFollowUpWhenShort ==
    (Decided /\ Remaining(last.elapsed, TimeLimitSeconds) < 120)
        => last.step.action \notin FollowUpActions

\* C9: completed is terminal: no request changes status, start_time, end_time
\* or the preset cursor of a completed session
C9_CompletedTerminal ==
    [][status = "completed" =>
         /\ status' = status
         /\ start_time' = start_time
         /\ end_time' = end_time
         /\ current_question' = current_question]_vars

\* C10: submit_response on a session that is not in progress is refused with a
\* client error, stores no response and leaves status, cursor and timestamps
\* as they are
C10_SubmitRejected ==
    [][(Handled("submit_response") /\ status # "in_progress") =>
         /\ last'.http = 400
         /\ responses' = responses
         /\ status' = status
         /\ current_question' = current_question
         /\ start_time' = start_time
         /\ end_time' = end_time]_vars

C10_Witness ==
    /\ last.op = "submit_response" /\ last.http = 400
    /\ status = "completed"
    /\ responses # <<>>

\* C11: the backends called by determine_next_step are the configured ones in
\* their order, each called only after the ones before it failed, and when the
\* last call failed (or none was made) every configured backend has been called
C11_RouterOrder ==
    Decided =>
        LET calls == last.request.calls
            conf == Configured(last.request.cfg)
        IN /\ Len(calls) <= Len(conf)
           /\ \A i \in 1..Len(calls) : calls[i].backend = conf[i]
           /\ \A i \in 1..(Len(calls) - 1) : calls[i].failed
           /\ (calls = <<>> \/ calls[Len(calls)].failed) => Len(calls) = Len(conf)

TurnUpdateApplied ==
    IF ResponseAction(last'.step) = "complete"
    THEN status' = "completed" /\ end_time' = now
    ELSE IF last'.step.action = "preset" /\ last'.step.next_index # Absent
    THEN current_question' = last'.step.next_index
    ELSE TRUE

C15_ExactCount ==
    last.op = "generate_questions"
        => Len(questions) = last.request.number_of_questions

C18_NoResumeProbeWithoutResume ==
    (Decided /\ last.request.resume_text = "")
        => last.step.action # "resume"

\* the transcription outcomes without a usable text: saving or transcribing
\* raised, or the text is empty or a bracketed placeholder
TranscriptionFailed(tr) ==
    \/ tr.kind \in {"save_error", "raise"}
    \/ StrLen(tr.text) = 0
    \/ StartsWithBracket(tr.text)

\* a submission to an in-progress session whose transcription gave no usable text
FailedTranscriptionTurn ==
    /\ Handled("submit_response")
    /\ status = "in_progress"
    /\ TranscriptionFailed(last'.request.transcription)

C20_Rule4Fallback ==
    (Decided /\ last.failed) =>
        LET next == (last.qnum - 1) + 1
            step == AsRead(last.step)
        IN IF next < Len(questions)
           THEN /\ step.action = "preset"
                /\ step.question_text = PresetText(questions, next)
                /\ step.next_index = next + 1
                /\ step.suggested_time_seconds =
                       (IF questions[next + 1] = 0 THEN 120 ELSE questions[next + 1])
           ELSE step = CompleteStep

\* the rule-4 decision after the answer to question qnum, without its time:
\* an advance to the next preset with its own text when one exists, else complete
IsRule4(step, qs, qnum) ==
    IF qnum < Len(qs)
    THEN /\ step.action = "preset"
         /\ step.question_text = PresetText(qs, qnum)
         /\ step.next_index = qnum + 1
    ELSE step = CompleteStep

\* C21: when the payload of the backend that answered has no action or an
\* action that is not preset, follow_up, resume or complete, the decision is
\* the rule-4 fallback: an advance to the next preset if one exists, else
\* complete, whichever backend answered
C21_UnknownActionFallback ==
    (Decided /\ last.request.backend # "none"
             /\ last.request.payload.action \notin Actions)
        => IsRule4(last.step, questions, last.qnum)

\* C22: when the backend that answered chose preset and a next preset exists,
\* the decision is an advance with that preset's stored text, its 1-based
\* index and its stored suggested time (120 when unset); nothing of it comes
\* from the payload
C22_AdvanceUsesStoredPreset ==
    (Decided /\ last.request.backend # "none"
             /\ last.request.payload.action = "preset"
             /\ last.qnum < Len(questions))
        => last.step = Step("preset", PresetText(questions, last.qnum),
                            last.qnum + 1, PresetSuggested(questions, last.qnum))

\* C23: a submit-response turn whose decision is a follow-up or resume question
\* leaves the preset cursor, the status and end_time of the session as they
\* were, and a turn that changes the cursor has an advance as its decision
C23_FollowUpKeepsCursor ==
    [][Handled("submit_response") =>
         /\ last'.step.action \in FollowUpActions
               => UNCHANGED <<current_question, status, end_time>>
         /\ current_question' # current_question
               => last'.step.action = "preset"]_vars

C23_Witness ==
    /\ last.op = "submit_response" /\ last.http = 200
    /\ last.step.action \in FollowUpActions
    /\ last.step.next_index = 1
    /\ Len(responses) = 2
    /\ current_question = 2
    /\ status = "in_progress"

\* C24: a backend whose output is not parseable as a JSON object has failed,
\* and the configured backend after it in the order, when there is one, is
\* called before determine_next_step returns
C24_MalformedTriesNext ==
    Decided =>
        LET calls == last.request.calls
            conf == Configured(last.request.cfg)
        IN \A i \in 1..Len(calls) :
              calls[i].backend \in last.request.malformed =>
                 /\ calls[i].failed
                 /\ \A j \in 1..(Len(conf) - 1) :
                       conf[j] = calls[i].backend =>
                          \E k \in 1..Len(calls) : calls[k].backend = conf[j + 1]

\* C25: the status of a session becomes completed only from in_progress, never
\* from the state registration left it in, only through complete_session or
\* submit_response, and the step that makes it completed sets end_time to
\* the time of the request
C25_CompletedOnlyFromInProgress ==
    [][(status # "completed" /\ status' = "completed") =>
         /\ status = "in_progress"
         /\ last'.op \in {"complete_session", "submit_response"}
         /\ end_time' = now
         /\ end_time' # Absent]_vars

C25_Witness ==
    /\ last.op = "submit_response" /\ last.http = 200
    /\ last.step = CompleteStep
    /\ status = "completed"
    /\ start_time = 0
    /\ end_time = 1

\* the question that a response answers: the preset with its number for a
\* response recorded as preset, a generated question otherwise
AskedQuestion(qs, r) ==
    IF r.question_type = "preset" THEN PresetText(qs, r.question_number - 1)
    ELSE GeneratedText

C28_FollowUpIndex ==
    (Decided /\ last.step.action \in FollowUpActions)
        => last.step.next_index = last.qnum

\* C29: the start_time of a session is written at most once, and the elapsed
\* time that a submit-response turn would compute from it never decreases,
\* over any sequence of start, submit-response and complete requests
C29_StartTimeWrittenOnce ==
    [][/\ start_time # Absent => start_time' = start_time
       /\ (IF start_time' # Absent THEN (now' - start_time') * ClockStep ELSE 0)
             >= ElapsedSeconds]_vars

====
